---- MODULE Spec2Model ----
(***************************************************************************)
(* Curriculum manager.  Its parts, each with its own specification:        *)
(*   Spec, SpecExport - the school-year calendar (src/utils/dateHelpers    *)
(*     and the export's copy of it): the week <-> month conversions and    *)
(*     the calls the views make into them;                                 *)
(*   SpecDrop - the month view's drops and the dialogs' submits, and the   *)
(*     weeks they write;                                                   *)
(*   SpecDrag - the month view's drag events, from dragstart to the write  *)
(*     of the move;                                                        *)
(*   SpecStore - curriculumService against the database;                   *)
(*   SpecDashboard - the Dashboard's list, selection and delete dialog;    *)
(*   SpecStale - the Dashboard and another client on one store;            *)
(*   SpecCompare - analyticsService.compareYears.                          *)
(* Dates are local calendar dates [year, month (0-11), date (1-31)], as    *)
(* the JavaScript Date fields the code reads.                              *)
(***************************************************************************)
EXTENDS Integers, Sequences, FiniteSets

VARIABLES
  year,   \* the school year the views were given (Dashboard: parseInt(selectedYear))
  call,   \* the dateHelpers call a view has made: [fn, arg, dst]; fn = "none" between calls
  ret,    \* what it returned: [num, date, months, fallback]
  items,          \* Dashboard: the items loaded for the year, as the month view receives them
  draggedItem,    \* MonthView state: the item being dragged, or NoItem
  dragOverMonth,  \* MonthView state: month index of the highlighted cell, or NoMonth
  dropPosition,   \* MonthView state: [index, above] of the highlighted drop zone, or NoPosition
  pointerMonth,   \* the month column under the pointer, where the browser delivers a drop
  event,          \* the handler that ran last, what it saw and what it passed to onMoveItem
  writes,         \* the requests that handler made to curriculumService
  db,             \* the database under curriculum/: the set of stored nodes
  svc,            \* the curriculumService call under way: its arguments, locals and position
  clock,          \* what Date.now() returns next
  nextKey,        \* the key push() generates next
  dash,           \* Dashboard state: [selectedGrade, selectedItems, deleteItemId, isDeleteDialogOpen]
  peer            \* what another signed-in client has done to the store: [fn, ids]

viewVars == <<items, draggedItem, dragOverMonth, dropPosition, pointerMonth, event, writes>>

storeVars == <<db, svc, clock, nextKey>>

dashVars == <<dash, peer>>

vars == <<year, call, ret, viewVars, storeVars, dashVars>>

----------------------------------------------------------------------------
(* Bounds of the model *)

\* first school year explored, and how many consecutive ones: 28 years are a
\* full cycle of (weekday of April 1) x (leap year or not).
FirstYear == 2000
NumYears == 28

Years == FirstYear .. (FirstYear + NumYears - 1)
MaxMonthItems == 2
MaxStoreItems == 2
MaxStoreGrade == 2
ItemGrade == 1

\* items per list handed to compareYears
MaxCompareItems == 2

\* the last value of Date.now() a run of the Dashboard reaches
MaxClock == 3

----------------------------------------------------------------------------
(* Program constants *)

APRIL == 3              \* new Date(year, 3, 1)
DaysPerWeek == 7        \* (weekNumber - 1) * 7
MiddleOfWeek == 4       \* daysIntoYear + 4
MaxWeek == 52           \* week <= 52, Math.min(52, ...)
MonthsPerYear == 12     \* i < 12, (3 + i) % 12
MidMonthDay == 15       \* new Date(year, monthIndex, 15)
HoursPerDay == 24       \* 1000 * 60 * 60 * 24 ms, counted in hours here

\* The difference of two local midnights is a whole number of days plus the
\* change of the UTC offset between them (daylight saving), in hours.
DstShifts == {-1, 0, 1}

----------------------------------------------------------------------------
(* JavaScript Date / date-fns, as far as dateHelpers uses them *)

isLeapYear(y) == (y % 4 = 0 /\ y % 100 # 0) \/ y % 400 = 0

DaysInMonth(y, m) ==
  IF m = 1 THEN (IF isLeapYear(y) THEN 29 ELSE 28)
  ELSE IF m \in {3, 5, 8, 10} THEN 30
  ELSE 31

\* new Date(y, m, d) and Date.setDate: a day number past the end of the
\* month (or before its start) rolls over into the following (preceding) months.
RECURSIVE NewDate(_, _, _)
NewDate(y, m, d) ==
  IF d > DaysInMonth(y, m)
    THEN NewDate(IF m = 11 THEN y + 1 ELSE y, (m + 1) % 12, d - DaysInMonth(y, m))
  ELSE IF d < 1
    THEN LET py == IF m = 0 THEN y - 1 ELSE y
             pm == (m + 11) % 12
         IN  NewDate(py, pm, d + DaysInMonth(py, pm))
  ELSE [year |-> y, month |-> m, date |-> d]

\* date-fns addDays: date.setDate(date.getDate() + amount)
addDays(date, amount) == NewDate(date.year, date.month, date.date + amount)

getMonth(date) == date.month
getYear(date) == date.year

LeapsBefore(y) == ((y - 1) \div 4) - ((y - 1) \div 100) + ((y - 1) \div 400)

RECURSIVE DaysBeforeMonth(_, _)
DaysBeforeMonth(y, m) ==
  IF m = 0 THEN 0 ELSE DaysBeforeMonth(y, m - 1) + DaysInMonth(y, m - 1)

\* the day number of a local date, 1970-01-01 being day 0
EpochDay(date) ==
  365 * (date.year - 1970) + (LeapsBefore(date.year) - LeapsBefore(1970))
    + DaysBeforeMonth(date.year, date.month) + (date.date - 1)

\* Date.getDay: 0 = Sunday .. 6 = Saturday (1970-01-01 was a Thursday)
getDay(date) == (EpochDay(date) + 4) % 7

\* a.getTime() - b.getTime() for two local midnights, in hours; dst is the
\* change of UTC offset between the two dates
getTimeDiffHours(a, b, dst) == (EpochDay(a) - EpochDay(b)) * HoursPerDay + dst

Max(a, b) == IF a > b THEN a ELSE b
Min(a, b) == IF a < b THEN a ELSE b

----------------------------------------------------------------------------
(* dateHelpers.ts *)

\* variants of getFirstMondayOfApril: the month given 1-based; the step to Monday one short
getFirstMondayOfApril_OneBasedMonth(y) ==
  LET aprilStart == NewDate(y, APRIL + 1, 1)
      dayOfWeek == getDay(aprilStart)
      daysToAdd == IF dayOfWeek = 0 THEN 1 ELSE (8 - dayOfWeek) % 7
  IN  addDays(aprilStart, daysToAdd)

getFirstMondayOfApril_OffByOne(y) ==
  LET aprilStart == NewDate(y, APRIL, 1)
      dayOfWeek == getDay(aprilStart)
      daysToAdd == IF dayOfWeek = 0 THEN 1 ELSE (7 - dayOfWeek) % 7
  IN  addDays(aprilStart, daysToAdd)

getFirstMondayOfApril(y) ==
  LET aprilStart == NewDate(y, APRIL, 1)
      dayOfWeek == getDay(aprilStart)
      daysToAdd == IF dayOfWeek = 0 THEN 1 ELSE (8 - dayOfWeek) % 7
  IN  addDays(aprilStart, daysToAdd)

\* variants of getMonthFromWeek: the fourth day of the week (offset 3); five days a week
getMonthFromWeek_Thursday(weekNumber, y) ==
  LET firstMonday == getFirstMondayOfApril(y)
      daysIntoYear == (weekNumber - 1) * DaysPerWeek
      middleOfWeek == daysIntoYear + 3
      targetDate == addDays(firstMonday, middleOfWeek)
  IN  getMonth(targetDate)

getMonthFromWeek_Weekdays(weekNumber, y) ==
  LET firstMonday == getFirstMondayOfApril(y)
      daysIntoYear == (weekNumber - 1) * 5
      middleOfWeek == daysIntoYear + MiddleOfWeek
      targetDate == addDays(firstMonday, middleOfWeek)
  IN  getMonth(targetDate)

getMonthFromWeek(weekNumber, y) ==
  LET firstMonday == getFirstMondayOfApril(y)
      daysIntoYear == (weekNumber - 1) * DaysPerWeek
      middleOfWeek == daysIntoYear + MiddleOfWeek
      targetDate == addDays(firstMonday, middleOfWeek)
      monthIndex == getMonth(targetDate)
      monthYear == getYear(targetDate)
  IN  IF monthYear > y /\ monthIndex < 3
        THEN monthIndex
        ELSE monthIndex

\* date-fns format(date, "MMMM") and format(date, "MMM")
MonthNames ==
  <<"January", "February", "March", "April", "May", "June", "July",
    "August", "September", "October", "November", "December">>
MonthAbbrs ==
  <<"Jan", "Feb", "Mar", "Apr", "May", "Jun", "Jul", "Aug", "Sep", "Oct",
    "Nov", "Dec">>
formatMMMM(date) == MonthNames[getMonth(date) + 1]
formatMMM(date) == MonthAbbrs[getMonth(date) + 1]

\* the loop body with the year test taking April for a month of the next year
MonthDescriptor_AprilNextYear(i, y) ==
  LET monthIndex == (APRIL + i) % MonthsPerYear
      monthYear == IF monthIndex <= 3 THEN y + 1 ELSE y
  IN  [name |-> formatMMMM(NewDate(monthYear, monthIndex, 1)),
       abbr |-> formatMMM(NewDate(monthYear, monthIndex, 1)),
       monthIndex |-> monthIndex,
       year |-> monthYear]

\* the body of the loop of getSchoolYearMonths
MonthDescriptor(i, y) ==
  LET monthIndex == (APRIL + i) % MonthsPerYear
      monthYear == IF monthIndex < 3 THEN y + 1 ELSE y
  IN  [name |-> formatMMMM(NewDate(monthYear, monthIndex, 1)),
       abbr |-> formatMMM(NewDate(monthYear, monthIndex, 1)),
       monthIndex |-> monthIndex,
       year |-> monthYear]

\* for (let i = 0; i < 12; i++) months.push(...)
RECURSIVE SchoolYearMonthsLoop(_, _, _)
SchoolYearMonthsLoop(i, y, months) ==
  IF i < MonthsPerYear
    THEN SchoolYearMonthsLoop(i + 1, y, Append(months, MonthDescriptor(i, y)))
    ELSE months

getSchoolYearMonths(y) == SchoolYearMonthsLoop(0, y, <<>>)

getWeekForMonth_NoClamp(monthIndex, y, dst) ==
  LET monthDate == NewDate(y, monthIndex, MidMonthDay)
      firstMonday == getFirstMondayOfApril(y)
      daysDiff == getTimeDiffHours(monthDate, firstMonday, dst) \div HoursPerDay
  IN  (daysDiff \div DaysPerWeek) + 1

getWeekForMonth(monthIndex, y, dst) ==
  LET monthDate == NewDate(y, monthIndex, MidMonthDay)
      firstMonday == getFirstMondayOfApril(y)
      daysDiff == getTimeDiffHours(monthDate, firstMonday, dst) \div HoursPerDay
      weekNumber == (daysDiff \div DaysPerWeek) + 1
  IN  Max(1, Min(MaxWeek, weekNumber))

\* for (let week = 1; week <= 52; week++) ...; then the fallback
RECURSIVE FirstWeekScan(_, _, _, _)
FirstWeekScan(week, monthIndex, y, dst) ==
  IF week <= MaxWeek
    THEN IF getMonthFromWeek(week, y) = monthIndex
           THEN [week |-> week, fallback |-> FALSE]
           ELSE FirstWeekScan(week + 1, monthIndex, y, dst)
    ELSE [week |-> getWeekForMonth(monthIndex, y, dst), fallback |-> TRUE]

\* variant of getFirstWeekForMonth: the scan starting one week late
getFirstWeekForMonth_FromWeek2(monthIndex, y, dst) ==
  FirstWeekScan(2, monthIndex, y, dst)

getFirstWeekForMonth(monthIndex, y, dst) == FirstWeekScan(1, monthIndex, y, dst)

\* for (let week = 52; week >= 1; week--) ...; then the fallback
RECURSIVE LastWeekScan(_, _, _, _)
LastWeekScan(week, monthIndex, y, dst) ==
  IF week >= 1
    THEN IF getMonthFromWeek(week, y) = monthIndex
           THEN [week |-> week, fallback |-> FALSE]
           ELSE LastWeekScan(week - 1, monthIndex, y, dst)
    ELSE [week |-> getWeekForMonth(monthIndex, y, dst), fallback |-> TRUE]

\* variant of getLastWeekForMonth: no scan, the middle-of-month week at once
getLastWeekForMonth_MiddleOnly(monthIndex, y, dst) ==
  [week |-> getWeekForMonth(monthIndex, y, dst), fallback |-> TRUE]

getLastWeekForMonth(monthIndex, y, dst) == LastWeekScan(MaxWeek, monthIndex, y, dst)

----------------------------------------------------------------------------
(* exportService.ts: the week -> month mapping the PDF/Excel export uses *)

WeekdaysPerWeek == 5    \* (weekNumber - 1) * 5
MiddleWeekday == 3      \* weekdaysIntoYear + 3

exportGetFirstMondayOfApril(y) ==
  LET aprilStart == NewDate(y, APRIL, 1)
      dayOfWeek == getDay(aprilStart)
      daysToAdd == IF dayOfWeek = 0 THEN 1 ELSE (8 - dayOfWeek) % 7
  IN  addDays(aprilStart, daysToAdd)

\* one pass of the body of
\*   while (weekdaysAdded < middleOfWeek) { currentDate = addDays(currentDate, 1); ... }
\* on the loop's variables st = [currentDate, weekdaysAdded]
AddWeekdayStep(st) ==
  LET nextDate == addDays(st.currentDate, 1)
      dayOfWeek == getDay(nextDate)
  IN  [currentDate |-> nextDate,
       weekdaysAdded |-> IF dayOfWeek >= 1 /\ dayOfWeek <= 5
                           THEN st.weekdaysAdded + 1
                           ELSE st.weekdaysAdded]

\* at most n passes of the loop
RECURSIVE AddWeekdaysPasses(_, _, _)
AddWeekdaysPasses(st, n, middleOfWeek) ==
  IF n > 0 /\ st.weekdaysAdded < middleOfWeek
    THEN AddWeekdaysPasses(AddWeekdayStep(st), n - 1, middleOfWeek)
    ELSE st

\* the whole loop, run a stretch of passes at a time (which keeps the
\* evaluation shallow and changes nothing in what the loop computes)
RECURSIVE AddWeekdaysLoop(_, _)
AddWeekdaysLoop(st, middleOfWeek) ==
  IF st.weekdaysAdded < middleOfWeek
    THEN AddWeekdaysLoop(AddWeekdaysPasses(st, 16, middleOfWeek), middleOfWeek)
    ELSE st.currentDate

\* variant: the export sharing the calendar-week mapping of dateHelpers
exportGetMonthFromWeek_CalendarWeek(weekNumber, y) == getMonthFromWeek(weekNumber, y)

exportGetMonthFromWeek(weekNumber, y) ==
  LET firstMonday == exportGetFirstMondayOfApril(y)
      weekdaysIntoYear == (weekNumber - 1) * WeekdaysPerWeek
      middleOfWeek == weekdaysIntoYear + MiddleWeekday
      currentDate == AddWeekdaysLoop([currentDate |-> firstMonday, weekdaysAdded |-> 0], middleOfWeek)
      monthIndex == getMonth(currentDate)
      monthYear == getYear(currentDate)
  IN  IF monthYear > y /\ monthIndex < 3
        THEN monthIndex
        ELSE monthIndex

----------------------------------------------------------------------------
(* The calls the views make *)

NoDate == [year |-> 0, month |-> 0, date |-> 0]
NoRet == [num |-> 0, date |-> NoDate, months |-> <<>>, fallback |-> FALSE]

Weeks == 1 .. MaxWeek
MonthIndices == 0 .. (MonthsPerYear - 1)

----------------------------------------------------------------------------
(* Month view (components/curriculum/MonthView): items grouped per grade    *)
(* and month, and the week a drop assigns to the dragged item.  An item is  *)
(* [id, week, grade]; list indices are the code's (0-based), sequences are  *)
(* 1-based, so monthItems[index] of the code is monthItems[index + 1] here. *)

MinWeek == 1
MaxGrade == 6
Grades == 1 .. MaxGrade

NoItem == [id |-> 0, week |-> 0, grade |-> 0]
NoMonth == 0 - 1
NoPosition == [index |-> 0 - 1, above |-> FALSE]

\* The view calls dateHelpers again on every render and drop; the results depend
\* on the year, the month or week and the clock shift only, and are tabulated
\* here for the years the view is drawn for.
monthOfWeek == [y \in Years |-> [w \in Weeks |-> getMonthFromWeek(w, y)]]

weekForMonth ==
  [y \in Years |-> [m \in MonthIndices |-> [dst \in DstShifts |->
     getWeekForMonth(m, y, dst)]]]

firstWeekForMonth ==
  [y \in Years |-> [m \in MonthIndices |-> [dst \in DstShifts |->
     getFirstWeekForMonth(m, y, dst).week]]]

lastWeekForMonth ==
  [y \in Years |-> [m \in MonthIndices |-> [dst \in DstShifts |->
     getLastWeekForMonth(m, y, dst).week]]]

\* Array.prototype.sort((a, b) => a.week - b.week): stable, ascending weeks
RECURSIVE InsertByWeek(_, _)
InsertByWeek(sorted, item) ==
  IF sorted = <<>>
    THEN <<item>>
    ELSE IF Head(sorted).week <= item.week
           THEN <<Head(sorted)>> \o InsertByWeek(Tail(sorted), item)
           ELSE <<item>> \o sorted

RECURSIVE SortByWeek(_)
SortByWeek(list) ==
  IF list = <<>>
    THEN <<>>
    ELSE InsertByWeek(SortByWeek(SubSeq(list, 1, Len(list) - 1)), list[Len(list)])

\* itemsByGradeAndMonth[grade][monthIndex]
itemsByGradeAndMonth(list, grade, monthIndex, y) ==
  SortByWeek(SelectSeq(list,
    LAMBDA item : item.grade = grade /\ monthOfWeek[y][item.week] = monthIndex))

clampWeek(newWeek) == Max(MinWeek, Min(MaxWeek, newWeek))

\* drop zone above monthItems[index]
zoneAboveDropWeek_IgnoresFirstWeek(monthItems, index, monthIndex, y, dst) ==
  LET item == monthItems[index + 1]
      newWeek ==
        IF index = 0
          THEN item.week - 1
          ELSE LET prevItem == monthItems[index]
                   midWeek == (prevItem.week + item.week) \div 2
               IN  IF midWeek > prevItem.week /\ midWeek < item.week
                     THEN midWeek
                     ELSE Max(prevItem.week + 1, item.week - 1)
  IN  clampWeek(newWeek)

zoneAboveDropWeek_NoMidpoint(monthItems, index, monthIndex, y, dst) ==
  LET item == monthItems[index + 1]
      firstWeek == firstWeekForMonth[y][monthIndex][dst]
      newWeek ==
        IF index = 0
          THEN Max(firstWeek, item.week - 1)
          ELSE LET prevItem == monthItems[index]
               IN  Max(prevItem.week + 1, item.week - 1)
  IN  clampWeek(newWeek)

zoneAboveDropWeek_PrevIsTarget(monthItems, index, monthIndex, y, dst) ==
  LET item == monthItems[index + 1]
      firstWeek == firstWeekForMonth[y][monthIndex][dst]
      newWeek ==
        IF index = 0
          THEN Max(firstWeek, item.week - 1)
          ELSE LET prevItem == monthItems[index + 1]
                   midWeek == (prevItem.week + item.week) \div 2
               IN  IF midWeek > prevItem.week /\ midWeek < item.week
                     THEN midWeek
                     ELSE Max(prevItem.week + 1, item.week - 1)
  IN  clampWeek(newWeek)

zoneAboveDropWeek_WeekBefore(monthItems, index, monthIndex, y, dst) ==
  clampWeek(monthItems[index + 1].week - 1)

zoneAboveDropWeek(monthItems, index, monthIndex, y, dst) ==
  LET item == monthItems[index + 1]
      firstWeek == firstWeekForMonth[y][monthIndex][dst]
      newWeek ==
        IF index = 0
          THEN Max(firstWeek, item.week - 1)
          ELSE LET prevItem == monthItems[index]
                   midWeek == (prevItem.week + item.week) \div 2
               IN  IF midWeek > prevItem.week /\ midWeek < item.week
                     THEN midWeek
                     ELSE Max(prevItem.week + 1, item.week - 1)
  IN  clampWeek(newWeek)

\* drop zone below monthItems[index] (rendered under the last item only)
zoneBelowDropWeek(monthItems, index, monthIndex, y, dst) ==
  LET item == monthItems[index + 1]
      lastWeek == lastWeekForMonth[y][monthIndex][dst]
      newWeek ==
        IF index = Len(monthItems) - 1
          THEN Min(lastWeek, item.week + 1)
          ELSE LET nextItem == monthItems[index + 2]
                   midWeek == (item.week + nextItem.week) \div 2
               IN  IF midWeek > item.week /\ midWeek < nextItem.week
                     THEN midWeek
                     ELSE Min(item.week + 1, nextItem.week - 1)
  IN  clampWeek(newWeek)

\* the table cell of a month: empty cell, remembered drop position, or fallback
cellDropWeek(monthItems, position, monthIndex, y, dst) ==
  IF Len(monthItems) = 0
    THEN weekForMonth[y][monthIndex][dst]
    ELSE IF position # NoPosition
      THEN LET targetItem == monthItems[position.index + 1]
               newWeek ==
                 IF position.above
                   THEN LET firstWeek == firstWeekForMonth[y][monthIndex][dst]
                        IN  IF position.index = 0
                              THEN Max(firstWeek, targetItem.week - 1)
                              ELSE LET prevItem == monthItems[position.index]
                                       midWeek == (prevItem.week + targetItem.week) \div 2
                                   IN  IF midWeek > prevItem.week /\ midWeek < targetItem.week
                                         THEN midWeek
                                         ELSE Max(prevItem.week + 1, targetItem.week - 1)
                   ELSE LET lastWeek == lastWeekForMonth[y][monthIndex][dst]
                        IN  IF position.index = Len(monthItems) - 1
                              THEN Min(lastWeek, targetItem.week + 1)
                              ELSE LET nextItem == monthItems[position.index + 2]
                                       midWeek == (targetItem.week + nextItem.week) \div 2
                                   IN  IF midWeek > targetItem.week /\ midWeek < nextItem.week
                                         THEN midWeek
                                         ELSE Min(targetItem.week + 1, nextItem.week - 1)
           IN  clampWeek(newWeek)
      ELSE weekForMonth[y][monthIndex][dst]

----------------------------------------------------------------------------
(* Dashboard (pages/Dashboard) and its dialogs: the requests they hand to   *)
(* curriculumService.  A request is [op, itemId, currentGrade, week, grade]; *)
(* grade = 0 when the update carries no grade.                              *)

findItem(list, itemId) ==
  LET found == SelectSeq(list, LAMBDA i : i.id = itemId)
  IN  IF found = <<>> THEN NoItem ELSE found[1]

handleMoveItem(list, itemId, newWeek) ==
  LET item == findItem(list, itemId)
  IN  IF item = NoItem
        THEN <<>>
        ELSE <<[op |-> "update", itemId |-> itemId, currentGrade |-> item.grade,
                week |-> newWeek, grade |-> 0]>>

\* <SelectItem> options of the week selects
FormWeekOptions == {i + 1 : i \in 0 .. (MaxWeek - 1)}

BulkEditWeekOptions_ZeroBased == {i : i \in 0 .. (MaxWeek - 1)}

BulkEditWeekOptions == {i + 1 : i \in 0 .. (MaxWeek - 1)}

\* zod formSchema: week and grade
formSchemaAccepts(data) ==
  /\ data.week >= MinWeek /\ data.week <= MaxWeek
  /\ data.grade >= 1 /\ data.grade <= MaxGrade

handleFormSubmit(editingItem, data) ==
  IF editingItem # NoItem
    THEN <<[op |-> "update", itemId |-> editingItem.id, currentGrade |-> editingItem.grade,
            week |-> data.week, grade |-> data.grade]>>
    ELSE <<[op |-> "add", itemId |-> 0, currentGrade |-> 0,
            week |-> data.week, grade |-> data.grade]>>

\* BulkEditDialog.handleConfirm: one update per selected item, all to selectedWeek
bulkEditUpdates(list, selectedItemIds, selectedWeek) ==
  LET selectedItems == SelectSeq(list, LAMBDA item : item.id \in selectedItemIds)
  IN  [k \in 1 .. Len(selectedItems) |->
         [itemId |-> selectedItems[k].id, week |-> selectedWeek]]

handleBulkEdit(list, updates) ==
  LET known == SelectSeq(updates, LAMBDA u : findItem(list, u.itemId) # NoItem)
  IN  [k \in 1 .. Len(known) |->
         [op |-> "update", itemId |-> known[k].itemId,
          currentGrade |-> findItem(list, known[k].itemId).grade,
          week |-> known[k].week, grade |-> 0]]

----------------------------------------------------------------------------
(* The store (Firebase Realtime Database under curriculum/) and              *)
(* services/curriculumService.  A node is [year, slot, key, data]: slot g in *)
(* 1..6 for curriculum/year/g/key, LegacySlot for an old-format item stored  *)
(* directly at curriculum/year/key.  A field the database does not hold      *)
(* reads as 0 (numbers, texts) or <<>> (lists), the values JavaScript's ||   *)
(* replaces; the database stores no empty list and no empty node.            *)

LegacySlot == 0
UserId == 1
StoredAt == 1
DefaultGrade == 1
StoreGrades == 1 .. MaxStoreGrade
DataFields ==
  {"id", "title", "description", "week", "grade", "topics", "resources",
   "createdAt", "updatedAt", "createdBy"}
FormFields == {"title", "description", "week", "grade", "topics", "resources"}

NoData ==
  [id |-> 0, title |-> 0, description |-> 0, week |-> 0, grade |-> 0, topics |-> <<>>,
   resources |-> <<>>, createdAt |-> 0, updatedAt |-> 0, createdBy |-> 0]

NodesAt(store, y, slot, key) ==
  {node \in store : node.year = y /\ node.slot = slot /\ node.key = key}

\* get(ref).val(): null (NoData) where nothing is stored
dbGet(store, y, slot, key) ==
  IF NodesAt(store, y, slot, key) = {}
    THEN NoData
    ELSE (CHOOSE node \in NodesAt(store, y, slot, key) : TRUE).data

dbRemove(store, y, slot, key) == store \ NodesAt(store, y, slot, key)

dbSet(store, y, slot, key, data) ==
  IF data = NoData
    THEN dbRemove(store, y, slot, key)
    ELSE dbRemove(store, y, slot, key)
           \cup {[year |-> y, slot |-> slot, key |-> key, data |-> data]}

\* { ...currentData, ...updates, updatedAt: Date.now() }
spreadUpdates_CurrentWins(currentData, updates, now) ==
  [f \in DataFields |->
     IF f = "updatedAt" THEN now
     ELSE IF f \in updates.fields /\ currentData[f] = NoData[f] THEN updates.values[f]
     ELSE currentData[f]]

spreadUpdates(currentData, updates, now) ==
  [f \in DataFields |->
     IF f = "updatedAt" THEN now
     ELSE IF f \in updates.fields THEN updates.values[f]
     ELSE currentData[f]]

\* update(ref, values): the named children are written, the others kept
dbUpdate(store, y, slot, key, updates, now) ==
  dbSet(store, y, slot, key, spreadUpdates(dbGet(store, y, slot, key), updates, now))

\* Object.keys order of a snapshot: the grade keys "1".."6", then the other keys
NodeBefore(a, b) ==
  IF (a.slot = LegacySlot) # (b.slot = LegacySlot)
    THEN b.slot = LegacySlot
    ELSE IF a.slot # b.slot THEN a.slot < b.slot ELSE a.key < b.key

RECURSIVE NodesInKeyOrder(_)
NodesInKeyOrder(nodes) ==
  IF nodes = {}
    THEN <<>>
    ELSE LET first == CHOOSE a \in nodes : \A b \in nodes \ {a} : NodeBefore(a, b)
         IN  <<first>> \o NodesInKeyOrder(nodes \ {first})

YearNodes(store, y) == {node \in store : node.year = y}

\* the item getCurriculum builds from a node (all-grades branch)
reportedItem(node) ==
  IF node.slot >= 1 /\ node.slot <= MaxGrade
    THEN [node.data EXCEPT
            !.id = IF node.data.id # 0 THEN node.data.id ELSE node.key,
            !.grade = IF node.data.grade # 0 THEN node.data.grade ELSE node.slot]
    ELSE [node.data EXCEPT
            !.id = IF node.data.id # 0 THEN node.data.id ELSE node.key,
            !.grade = IF node.data.grade # 0 THEN node.data.grade ELSE DefaultGrade]

\* items.sort: by grade, then week (stable)
RECURSIVE InsertByGradeWeek(_, _)
InsertByGradeWeek(sorted, item) ==
  IF sorted = <<>>
    THEN <<item>>
    ELSE IF \/ Head(sorted).grade < item.grade
            \/ (Head(sorted).grade = item.grade /\ Head(sorted).week <= item.week)
           THEN <<Head(sorted)>> \o InsertByGradeWeek(Tail(sorted), item)
           ELSE <<item>> \o sorted

RECURSIVE SortByGradeWeek(_)
SortByGradeWeek(list) ==
  IF list = <<>>
    THEN <<>>
    ELSE InsertByGradeWeek(SortByGradeWeek(SubSeq(list, 1, Len(list) - 1)), list[Len(list)])

\* what the getCurriculum(year, callback) listener hands to the callback
getCurriculum(store, y) ==
  LET nodes == NodesInKeyOrder(YearNodes(store, y))
  IN  SortByGradeWeek([k \in 1 .. Len(nodes) |-> reportedItem(nodes[k])])

\* copyYearToYear: the nodes its two loops visit, in order
copyPending(sourceData) ==
  SelectSeq(NodesInKeyOrder(sourceData),
            LAMBDA node : node.slot >= 1 /\ node.slot <= MaxGrade)

\* copyYearToYear: newItem
copiedItem(item, newKey, timestamp, userId) ==
  [id |-> newKey, title |-> item.title, description |-> item.description,
   week |-> item.week, grade |-> item.grade, topics |-> item.topics,
   resources |-> item.resources, createdAt |-> timestamp, updatedAt |-> timestamp,
   createdBy |-> userId]

NoUpdates == [fields |-> {}, values |-> NoData]

NoCall ==
  [fn |-> "none", pc |-> "idle", year |-> 0, itemId |-> 0, currentGrade |-> 0,
   updates |-> NoUpdates, currentData |-> NoData, targetYear |-> 0, pending |-> <<>>,
   copiedCount |-> 0, timestamp |-> 0, result |-> 0, before |-> {}]

\* nothing stored, no service call made
StoreAtRest ==
  /\ db = {}
  /\ svc = NoCall
  /\ clock = StoredAt + 1
  /\ nextKey = 1

NoEvent == [handler |-> "none", grade |-> 0, monthIndex |-> NoMonth, monthItems |-> <<>>,
            position |-> NoPosition, dst |-> 0, called |-> FALSE, itemId |-> 0,
            newWeek |-> 0]

\* selectedGrade "all"
AllGrades == 0

\* deleteItemId null
NoId == 0

\* Dashboard as mounted (useState initial values), no other client at work
DashAtRest ==
  /\ dash = [selectedGrade |-> AllGrades, selectedItems |-> <<>>,
             deleteItemId |-> NoId, isDeleteDialogOpen |-> FALSE]
  /\ peer = [fn |-> "none", ids |-> {}]

\* no month view mounted: nothing loaded, nothing dragged
ViewAtRest ==
  /\ items = <<>>
  /\ draggedItem = NoItem
  /\ dragOverMonth = NoMonth
  /\ dropPosition = NoPosition
  /\ pointerMonth = NoMonth
  /\ event = NoEvent
  /\ writes = <<>>

----------------------------------------------------------------------------
(* The calendar calls *)

Init ==
  /\ year \in Years
  /\ call = [fn |-> "none", arg |-> 0, dst |-> 0]
  /\ ret = NoRet
  /\ ViewAtRest
  /\ StoreAtRest
  /\ DashAtRest

Idle == call.fn = "none"

CallGetFirstMondayOfApril ==
  /\ Idle
  /\ call' = [fn |-> "getFirstMondayOfApril", arg |-> 0, dst |-> 0]
  /\ ret' = [NoRet EXCEPT !.date = getFirstMondayOfApril(year)]
  /\ UNCHANGED <<year, viewVars, storeVars, dashVars>>

CallGetMonthFromWeek ==
  \E week \in Weeks :
    /\ Idle
    /\ call' = [fn |-> "getMonthFromWeek", arg |-> week, dst |-> 0]
    /\ ret' = [NoRet EXCEPT !.num = getMonthFromWeek(week, year)]
    /\ UNCHANGED <<year, viewVars, storeVars, dashVars>>

CallGetSchoolYearMonths ==
  /\ Idle
  /\ call' = [fn |-> "getSchoolYearMonths", arg |-> 0, dst |-> 0]
  /\ ret' = [NoRet EXCEPT !.months = getSchoolYearMonths(year)]
  /\ UNCHANGED <<year, viewVars, storeVars, dashVars>>

CallGetWeekForMonth ==
  \E monthIndex \in MonthIndices, dst \in DstShifts :
    /\ Idle
    /\ call' = [fn |-> "getWeekForMonth", arg |-> monthIndex, dst |-> dst]
    /\ ret' = [NoRet EXCEPT !.num = getWeekForMonth(monthIndex, year, dst)]
    /\ UNCHANGED <<year, viewVars, storeVars, dashVars>>

CallGetFirstWeekForMonth ==
  \E monthIndex \in MonthIndices, dst \in DstShifts :
    LET r == getFirstWeekForMonth(monthIndex, year, dst)
    IN  /\ Idle
        /\ call' = [fn |-> "getFirstWeekForMonth", arg |-> monthIndex, dst |-> dst]
        /\ ret' = [NoRet EXCEPT !.num = r.week, !.fallback = r.fallback]
        /\ UNCHANGED <<year, viewVars, storeVars, dashVars>>

CallGetLastWeekForMonth ==
  \E monthIndex \in MonthIndices, dst \in DstShifts :
    LET r == getLastWeekForMonth(monthIndex, year, dst)
    IN  /\ Idle
        /\ call' = [fn |-> "getLastWeekForMonth", arg |-> monthIndex, dst |-> dst]
        /\ ret' = [NoRet EXCEPT !.num = r.week, !.fallback = r.fallback]
        /\ UNCHANGED <<year, viewVars, storeVars, dashVars>>

CallExportGetMonthFromWeek ==
  \E week \in Weeks :
    /\ Idle
    /\ call' = [fn |-> "exportGetMonthFromWeek", arg |-> week, dst |-> 0]
    /\ ret' = [NoRet EXCEPT !.num = exportGetMonthFromWeek(week, year)]
    /\ UNCHANGED <<year, viewVars, storeVars, dashVars>>

\* the caller has used the result; the next call starts afresh
Return ==
  /\ ~Idle
  /\ call' = [fn |-> "none", arg |-> 0, dst |-> 0]
  /\ ret' = NoRet
  /\ UNCHANGED <<year, viewVars, storeVars, dashVars>>

Next ==
  \/ CallGetFirstMondayOfApril
  \/ CallGetMonthFromWeek
  \/ CallGetSchoolYearMonths
  \/ CallGetWeekForMonth
  \/ CallGetFirstWeekForMonth
  \/ CallGetLastWeekForMonth
  \/ Return

Spec == Init /\ [][Next]_vars

\* the export and the month view mapping the same weeks
NextExport ==
  \/ CallExportGetMonthFromWeek
  \/ CallGetMonthFromWeek
  \/ Return

SpecExport == Init /\ [][NextExport]_vars

----------------------------------------------------------------------------
(* Drops on the month view and submits of the dialogs.  The view is drawn   *)
(* as a drag has left it: the items of the month column under the pointer,  *)
(* one more item in another month, the item being dragged and the drop      *)
(* position its last drag-over recorded.  Each handler then runs once.      *)

HalfYearWeek == 27

\* a week outside the month column under the pointer
ElsewhereWeek(monthIndex) == IF monthIndex = APRIL THEN HalfYearWeek ELSE MinWeek

ItemsOf(list) == {list[k] : k \in 1 .. Len(list)}

\* what the drop zones of the row of draggedItem's grade can have recorded
DropPositions(list, dragged, monthIndex, y) ==
  IF dragged = NoItem
    THEN {NoPosition}
    ELSE LET monthItems == itemsByGradeAndMonth(list, dragged.grade, monthIndex, y)
         IN  {NoPosition}
               \cup {[index |-> i, above |-> TRUE] :
                       i \in {j \in 0 .. (Len(monthItems) - 1) : monthItems[j + 1].id # dragged.id}}
               \cup {[index |-> i, above |-> FALSE] :
                       i \in {j \in 0 .. (Len(monthItems) - 1) :
                                j = Len(monthItems) - 1 /\ monthItems[j + 1].id # dragged.id}}

InitDrop ==
  /\ year \in Years
  /\ call = [fn |-> "none", arg |-> 0, dst |-> 0]
  /\ ret = NoRet
  /\ pointerMonth \in MonthIndices \cup {NoMonth}
  /\ \E n \in 0 .. MaxMonthItems :
       \E weeks \in [1 .. n -> {w \in Weeks : monthOfWeek[year][w] = pointerMonth}] :
         /\ \A k \in 1 .. (n - 1) : weeks[k] <= weeks[k + 1]
         /\ items = SortByWeek(
              [k \in 1 .. n |-> [id |-> k, week |-> weeks[k], grade |-> ItemGrade]]
                \o <<[id |-> n + 1, week |-> ElsewhereWeek(pointerMonth), grade |-> ItemGrade]>>)
  /\ draggedItem \in {NoItem} \cup ItemsOf(items)
  /\ dragOverMonth = IF draggedItem = NoItem THEN NoMonth ELSE pointerMonth
  /\ dropPosition \in DropPositions(items, draggedItem, pointerMonth, year)
  /\ event = NoEvent
  /\ writes = <<>>
  /\ StoreAtRest
  /\ DashAtRest

Fresh == event.handler = "none"

Dragging == draggedItem # NoItem \/ dropPosition # NoPosition

\* <TableCell onDrop> of row grade in the month column under the pointer
CellDrop ==
  /\ Fresh
  /\ pointerMonth # NoMonth
  /\ \E grade \in Grades, dst \in DstShifts :
    LET monthItems == itemsByGradeAndMonth(items, grade, pointerMonth, year)
        moves == draggedItem # NoItem /\ draggedItem.grade = grade
        newWeek == cellDropWeek(monthItems, dropPosition, pointerMonth, year, dst)
    IN  /\ event' = IF moves
                      THEN [handler |-> "cell", grade |-> grade, monthIndex |-> pointerMonth,
                            monthItems |-> monthItems, position |-> dropPosition,
                            dst |-> dst, called |-> TRUE, itemId |-> draggedItem.id, newWeek |-> newWeek]
                      ELSE [NoEvent EXCEPT !.handler = "cell", !.grade = grade,
                                           !.monthIndex = pointerMonth]
        /\ writes' = IF moves THEN handleMoveItem(items, draggedItem.id, newWeek) ELSE <<>>
        /\ dragOverMonth' = NoMonth
        /\ draggedItem' = NoItem
        /\ dropPosition' = NoPosition
        /\ UNCHANGED <<year, call, ret, items, pointerMonth, storeVars, dashVars>>

\* onDrop of the drop zone above monthItems[index]
ZoneAboveDrop ==
  /\ Fresh
  /\ pointerMonth # NoMonth
  /\ \E grade \in Grades, dst \in DstShifts :
    LET monthItems == itemsByGradeAndMonth(items, grade, pointerMonth, year)
    IN  \E index \in 0 .. (Len(monthItems) - 1) :
          LET item == monthItems[index + 1]
              moves == /\ draggedItem # NoItem
                       /\ draggedItem.grade = grade
                       /\ draggedItem.id # item.id
              newWeek == zoneAboveDropWeek(monthItems, index, pointerMonth, year, dst)
          IN  /\ event' = IF moves
                            THEN [handler |-> "zoneAbove", grade |-> grade,
                                  monthIndex |-> pointerMonth, monthItems |-> monthItems,
                                  position |-> [index |-> index, above |-> TRUE],
                                  dst |-> dst, called |-> TRUE, itemId |-> draggedItem.id,
                                  newWeek |-> newWeek]
                            ELSE [NoEvent EXCEPT !.handler = "zoneAbove", !.grade = grade,
                                                 !.monthIndex = pointerMonth]
              /\ writes' = IF moves
                             THEN handleMoveItem(items, draggedItem.id, newWeek)
                             ELSE <<>>
              /\ dragOverMonth' = NoMonth
              /\ draggedItem' = NoItem
              /\ dropPosition' = NoPosition
              /\ UNCHANGED <<year, call, ret, items, pointerMonth, storeVars, dashVars>>

\* onDrop of the drop zone below the last item of the cell
ZoneBelowDrop ==
  /\ Fresh
  /\ pointerMonth # NoMonth
  /\ \E grade \in Grades, dst \in DstShifts :
    LET monthItems == itemsByGradeAndMonth(items, grade, pointerMonth, year)
    IN  \E index \in {i \in 0 .. (Len(monthItems) - 1) : i = Len(monthItems) - 1} :
          LET item == monthItems[index + 1]
              moves == /\ draggedItem # NoItem
                       /\ draggedItem.grade = grade
                       /\ draggedItem.id # item.id
              newWeek == zoneBelowDropWeek(monthItems, index, pointerMonth, year, dst)
          IN  /\ event' = IF moves
                            THEN [handler |-> "zoneBelow", grade |-> grade,
                                  monthIndex |-> pointerMonth, monthItems |-> monthItems,
                                  position |-> [index |-> index, above |-> FALSE],
                                  dst |-> dst, called |-> TRUE, itemId |-> draggedItem.id,
                                  newWeek |-> newWeek]
                            ELSE [NoEvent EXCEPT !.handler = "zoneBelow", !.grade = grade,
                                                 !.monthIndex = pointerMonth]
              /\ writes' = IF moves
                             THEN handleMoveItem(items, draggedItem.id, newWeek)
                             ELSE <<>>
              /\ dragOverMonth' = NoMonth
              /\ draggedItem' = NoItem
              /\ dropPosition' = NoPosition
              /\ UNCHANGED <<year, call, ret, items, pointerMonth, storeVars, dashVars>>

\* CurriculumForm submit (create when nothing is being edited); the dialog is
\* modal: no drag is under way and the pointer is not over the month grid
FormSubmit ==
  /\ Fresh
  /\ ~Dragging
  /\ pointerMonth = NoMonth
  /\ \E editingItem \in {NoItem} \cup ItemsOf(items), grade \in Grades :
    \E week \in FormWeekOptions \cup {IF editingItem = NoItem THEN MinWeek ELSE editingItem.week} :
      LET data == [week |-> week, grade |-> grade]
      IN  /\ formSchemaAccepts(data)
          /\ event' = [NoEvent EXCEPT !.handler = "form", !.grade = grade,
                                      !.itemId = editingItem.id, !.newWeek = week]
          /\ writes' = handleFormSubmit(editingItem, data)
          /\ UNCHANGED <<year, call, ret, items, pointerMonth,
                         draggedItem, dragOverMonth, dropPosition, storeVars, dashVars>>

\* BulkEditDialog confirm -> Dashboard.handleBulkEdit
BulkEditConfirm ==
  /\ Fresh
  /\ ~Dragging
  /\ pointerMonth = NoMonth
  /\ \E selectedItemIds \in SUBSET {item.id : item \in ItemsOf(items)} :
    \E selectedWeek \in BulkEditWeekOptions :
      /\ event' = [NoEvent EXCEPT !.handler = "bulkEdit", !.newWeek = selectedWeek]
      /\ writes' = handleBulkEdit(items, bulkEditUpdates(items, selectedItemIds, selectedWeek))
      /\ UNCHANGED <<year, call, ret, items, pointerMonth,
                     draggedItem, dragOverMonth, dropPosition, storeVars, dashVars>>

NextDrop ==
  \/ CellDrop
  \/ ZoneAboveDrop
  \/ ZoneBelowDrop
  \/ FormSubmit
  \/ BulkEditConfirm

SpecDrop == InitDrop /\ [][NextDrop]_vars

----------------------------------------------------------------------------
(* Calls of curriculumService against the store.  The store is drawn with up *)
(* to MaxStoreItems items of the selected year, each under a grade or in the *)
(* old format; one call then runs, each await being a step of its own.       *)

TopicLists == {<<>>, <<1>>}

\* where and how an item can be found stored: under its grade, or directly
\* under the year with or without a grade field
ItemShapes ==
  {[slot |-> g, grade |-> g, topics |-> t] : g \in StoreGrades, t \in TopicLists}
    \cup {[slot |-> LegacySlot, grade |-> g, topics |-> t] :
            g \in {0} \cup StoreGrades, t \in TopicLists}

StoredNode(y, key, shape) ==
  [year |-> y, slot |-> shape.slot, key |-> key,
   data |-> [id |-> key, title |-> key, description |-> 1, week |-> MinWeek,
             grade |-> shape.grade, topics |-> shape.topics, resources |-> <<>>,
             createdAt |-> StoredAt, updatedAt |-> StoredAt, createdBy |-> UserId]]

InitStore ==
  /\ year = FirstYear
  /\ call = [fn |-> "none", arg |-> 0, dst |-> 0]
  /\ ret = NoRet
  /\ ViewAtRest
  /\ \E n \in 0 .. MaxStoreItems :
       \E shapes \in [1 .. n -> ItemShapes] :
         /\ db = {StoredNode(year, key, shapes[key]) : key \in 1 .. n}
         /\ nextKey = n + 1
  /\ svc = NoCall
  /\ clock = StoredAt + 1
  /\ DashAtRest

\* the updates Dashboard passes: { week } from a move or a bulk edit, the whole
\* form data from an edit
UpdateInputs(item) ==
  {[fields |-> {"week"}, values |-> [NoData EXCEPT !.week = MaxWeek]]}
    \cup {[fields |-> FormFields,
           values |-> [NoData EXCEPT !.title = item.title,
                                     !.description = item.description,
                                     !.week = MaxWeek, !.grade = g,
                                     !.topics = item.topics,
                                     !.resources = item.resources]] :
            g \in StoreGrades}

\* updateCurriculumItem up to its first await
UpdateCall ==
  /\ svc.pc = "idle"
  /\ \E item \in ItemsOf(getCurriculum(db, year)) :
       \E updates \in UpdateInputs(item) :
         LET gradeChanges == /\ "grade" \in updates.fields
                             /\ updates.values.grade # 0
                             /\ updates.values.grade # item.grade
         IN  /\ svc' = [NoCall EXCEPT !.fn = "updateCurriculumItem",
                                      !.pc = IF gradeChanges THEN "get" ELSE "update",
                                      !.year = year, !.itemId = item.id,
                                      !.currentGrade = item.grade, !.updates = updates,
                                      !.timestamp = IF gradeChanges THEN 0 ELSE clock,
                                      !.before = db]
             /\ clock' = IF gradeChanges THEN clock ELSE clock + 1
  /\ UNCHANGED <<year, call, ret, viewVars, dashVars, db, nextKey>>

\* await get(currentRef): the move goes on if the item is there
UpdateGet ==
  /\ svc.fn = "updateCurriculumItem"
  /\ svc.pc = "get"
  /\ LET currentData == dbGet(db, svc.year, svc.currentGrade, svc.itemId)
     IN  svc' = [svc EXCEPT !.currentData = currentData,
                            !.timestamp = clock,
                            !.pc = IF currentData # NoData THEN "set" ELSE "update"]
  /\ clock' = clock + 1
  /\ UNCHANGED <<year, call, ret, viewVars, dashVars, db, nextKey>>

\* await set(newRef, ...)
UpdateSet ==
  /\ svc.fn = "updateCurriculumItem"
  /\ svc.pc = "set"
  /\ db' = dbSet(db, svc.year, svc.updates.values.grade, svc.itemId,
                 spreadUpdates(svc.currentData, svc.updates, svc.timestamp))
  /\ svc' = [svc EXCEPT !.pc = "remove"]
  /\ UNCHANGED <<year, call, ret, viewVars, dashVars, clock, nextKey>>

\* await remove(currentRef)
UpdateRemove ==
  /\ svc.fn = "updateCurriculumItem"
  /\ svc.pc = "remove"
  /\ db' = dbRemove(db, svc.year, svc.currentGrade, svc.itemId)
  /\ svc' = [svc EXCEPT !.pc = "done"]
  /\ UNCHANGED <<year, call, ret, viewVars, dashVars, clock, nextKey>>

\* await update(itemRef, updateData)
UpdateRegular ==
  /\ svc.fn = "updateCurriculumItem"
  /\ svc.pc = "update"
  /\ db' = dbUpdate(db, svc.year, svc.currentGrade, svc.itemId, svc.updates, svc.timestamp)
  /\ svc' = [svc EXCEPT !.pc = "done"]
  /\ UNCHANGED <<year, call, ret, viewVars, dashVars, clock, nextKey>>

\* Dashboard.handleCopyYear with the target CopyYearDialog confirms: the next year
CopyCall ==
  /\ svc.pc = "idle"
  /\ svc' = [NoCall EXCEPT !.fn = "copyYearToYear", !.pc = "get", !.year = year,
                           !.targetYear = year + 1, !.before = db]
  /\ UNCHANGED <<year, call, ret, viewVars, dashVars, db, clock, nextKey>>

\* await get(sourceRef), and the loops up to the first set
CopyGet ==
  /\ svc.fn = "copyYearToYear"
  /\ svc.pc = "get"
  /\ LET sourceData == YearNodes(db, svc.year)
         pending == copyPending(sourceData)
     IN  IF sourceData = {}
           THEN /\ svc' = [svc EXCEPT !.pc = "done", !.result = 0]
                /\ clock' = clock
           ELSE /\ svc' = [svc EXCEPT !.pending = pending, !.copiedCount = 0,
                                      !.timestamp = clock,
                                      !.pc = IF pending = <<>> THEN "done" ELSE "set",
                                      !.result = 0]
                /\ clock' = clock + 1
  /\ UNCHANGED <<year, call, ret, viewVars, dashVars, db, nextKey>>

\* push, await set(newItemRef, newItem), copiedCount++, and on to the next set
CopySet ==
  /\ svc.fn = "copyYearToYear"
  /\ svc.pc = "set"
  /\ LET node == Head(svc.pending)
         rest == Tail(svc.pending)
     IN  IF node.data.grade = 0
           THEN \* set() rejects a value holding undefined
                /\ svc' = [svc EXCEPT !.pc = "threw"]
                /\ UNCHANGED <<db, nextKey>>
           ELSE /\ db' = dbSet(db, svc.targetYear, node.slot, nextKey,
                               copiedItem(node.data, nextKey, svc.timestamp, UserId))
                /\ nextKey' = nextKey + 1
                /\ svc' = [svc EXCEPT !.pending = rest,
                                      !.copiedCount = svc.copiedCount + 1,
                                      !.pc = IF rest = <<>> THEN "done" ELSE "set",
                                      !.result = IF rest = <<>>
                                                   THEN svc.copiedCount + 1
                                                   ELSE 0]
  /\ UNCHANGED <<year, call, ret, viewVars, dashVars, clock>>

NextStore ==
  \/ UpdateCall
  \/ UpdateGet
  \/ UpdateSet
  \/ UpdateRemove
  \/ UpdateRegular
  \/ CopyCall
  \/ CopyGet
  \/ CopySet

SpecStore == InitStore /\ [][NextStore]_vars

----------------------------------------------------------------------------
(* services/analyticsService.compareYears.  An item is [id, grade, week,    *)
(* title, description, topics, resources]; topics is the list of the topic  *)
(* names, resources a list of which only the length is read.  The key       *)
(* `${grade}-${week}-${title}` is the triple <<grade, week, title>> (grades  *)
(* and weeks are natural numbers, so the text determines the triple).  A     *)
(* Map built from a list keeps, for a key that occurs twice, the last item.  *)

compareKey(item) == <<item.grade, item.week, item.title>>

byKeyHas(list, key) == \E i \in 1 .. Len(list) : compareKey(list[i]) = key

\* Map.get: the entry of the last item of the list with this key
byKeyGet(list, key) ==
  LET last == CHOOSE i \in 1 .. Len(list) :
                /\ compareKey(list[i]) = key
                /\ \A j \in (i + 1) .. Len(list) : compareKey(list[j]) # key
  IN  list[last]

topicNames(item) == {item.topics[i] : i \in 1 .. Len(item.topics)}

compareChanges(year1Item, item) ==
  (IF year1Item.description # item.description
     THEN << <<"Description changed">> >> ELSE <<>>)
  \o (IF Len(year1Item.topics) # Len(item.topics)
        THEN << <<"Topics count changed", Len(year1Item.topics), Len(item.topics)>> >>
        ELSE <<>>)
  \o (IF Len(year1Item.resources) # Len(item.resources)
        THEN << <<"Resources count changed", Len(year1Item.resources),
                  Len(item.resources)>> >>
        ELSE <<>>)
  \o (IF topicNames(year1Item) # topicNames(item)
        THEN << <<"Topics changed">> >> ELSE <<>>)

\* a pass that ends after the first year-2 item
modifiedOf_FirstOnly(year1Items, rest) ==
  IF rest = <<>> THEN <<>>
  ELSE LET item == Head(rest)
           key == compareKey(item)
       IN  IF byKeyHas(year1Items, key)
                /\ compareChanges(byKeyGet(year1Items, key), item) # <<>>
             THEN <<[item |-> item,
                     changes |-> compareChanges(byKeyGet(year1Items, key), item)]>>
             ELSE <<>>

RECURSIVE modifiedOf(_, _)
modifiedOf(year1Items, rest) ==
  IF rest = <<>> THEN <<>>
  ELSE LET item == Head(rest)
           key == compareKey(item)
       IN  (IF byKeyHas(year1Items, key)
                 /\ compareChanges(byKeyGet(year1Items, key), item) # <<>>
              THEN <<[item |-> item,
                      changes |-> compareChanges(byKeyGet(year1Items, key), item)]>>
              ELSE <<>>)
           \o modifiedOf(year1Items, Tail(rest))

compareYears(year1Items, year2Items, year1, year2) ==
  LET isAdded(item) == ~byKeyHas(year1Items, compareKey(item))
      isRemoved(item) == ~byKeyHas(year2Items, compareKey(item))
      isUnchanged(item) ==
        /\ byKeyHas(year1Items, compareKey(item))
        /\ compareChanges(byKeyGet(year1Items, compareKey(item)), item) = <<>>
      added == SelectSeq(year2Items, isAdded)
      removed == SelectSeq(year1Items, isRemoved)
      modified == modifiedOf(year1Items, year2Items)
      unchanged == SelectSeq(year2Items, isUnchanged)
  IN  [year1 |-> year1, year2 |-> year2,
       added |-> added, removed |-> removed,
       modified |-> modified, unchanged |-> unchanged,
       stats |-> [year1Total |-> Len(year1Items), year2Total |-> Len(year2Items),
                  addedCount |-> Len(added), removedCount |-> Len(removed),
                  modifiedCount |-> Len(modified), unchangedCount |-> Len(unchanged)]]

----------------------------------------------------------------------------
(* Calls of compareYears.  The two lists are drawn with up to               *)
(* MaxCompareItems items each, in one grade and with one title, so that     *)
(* keys meet within a list and across the lists; the ids are the positions. *)

CompareWeeks == {MinWeek, MinWeek + 1}

\* the item of a key: as entered, with another description, with a topic
CompareShapes ==
  {[week |-> w, description |-> 1, topics |-> t] :
     w \in CompareWeeks, t \in {<<>>, <<1>>}}
    \cup {[week |-> w, description |-> 2, topics |-> <<>>] : w \in CompareWeeks}

ComparedItem(id, shape) ==
  [id |-> id, grade |-> ItemGrade, week |-> shape.week, title |-> 1,
   description |-> shape.description, topics |-> shape.topics,
   resources |-> <<>>]

CompareLists ==
  UNION {{[i \in 1 .. n |-> ComparedItem(i, shapes[i])] :
            shapes \in [1 .. n -> CompareShapes]} : n \in 0 .. MaxCompareItems}

InitCompare ==
  /\ year = FirstYear
  /\ \E year1Items \in CompareLists, year2Items \in CompareLists,
        year2 \in {FirstYear, FirstYear + 1} :
       call = [fn |-> "none", year1Items |-> year1Items,
               year2Items |-> year2Items, year1 |-> FirstYear, year2 |-> year2]
  /\ ret = NoRet
  /\ ViewAtRest
  /\ StoreAtRest
  /\ DashAtRest

CompareYears ==
  /\ call.fn = "none"
  /\ call' = [call EXCEPT !.fn = "compareYears"]
  /\ ret' = compareYears(call.year1Items, call.year2Items, call.year1, call.year2)
  /\ UNCHANGED <<year, viewVars, storeVars, dashVars>>

NextCompare == CompareYears

SpecCompare == InitCompare /\ [][NextCompare]_vars

----------------------------------------------------------------------------
(* Dashboard: the loaded list, the selection and the delete dialog.  The    *)
(* store holds up to MaxStoreItems items of the selected year, each under   *)
(* its grade; the year after it holds nothing.  A store call of a handler   *)
(* is taken with the handler (its awaits are not interleaved here); the     *)
(* listener's callback (setItems) is a step of its own, so the list can lag *)
(* behind the store.                                                        *)

\* getCurriculum with a grade: the items under curriculum/year/grade
getCurriculumOfGrade(store, y, grade) ==
  LET nodes == NodesInKeyOrder({node \in YearNodes(store, y) : node.slot = grade})
  IN  SortByGradeWeek([k \in 1 .. Len(nodes) |-> reportedItem(nodes[k])])

\* what the load effect's subscription delivers
loadedItems(store, y, selectedGrade) ==
  IF selectedGrade = AllGrades
    THEN getCurriculum(store, y)
    ELSE getCurriculumOfGrade(store, y, selectedGrade)

IdsOf(list) == {list[k].id : k \in 1 .. Len(list)}

SelectedIds == {dash.selectedItems[k] : k \in 1 .. Len(dash.selectedItems)}

handleSelectItem(prev, id) ==
  IF \E k \in 1 .. Len(prev) : prev[k] = id
    THEN SelectSeq(prev, LAMBDA i : i # id)
    ELSE Append(prev, id)

\* bulkDelete: update(rootRef, { path: null, ... })
bulkDelete(store, y, itemsToDelete) ==
  {node \in store :
     ~\E k \in 1 .. Len(itemsToDelete) :
        /\ node.year = y
        /\ node.slot = itemsToDelete[k].grade
        /\ node.key = itemsToDelete[k].id}

\* the regular updates of a list of requests, one after the other
RECURSIVE applyUpdates(_, _, _, _)
applyUpdates(store, y, requests, now) ==
  IF requests = <<>>
    THEN store
    ELSE LET r == Head(requests)
         IN  applyUpdates(
               dbUpdate(store, y, r.currentGrade, r.itemId,
                        [fields |-> {"week"}, values |-> [NoData EXCEPT !.week = r.week]],
                        now),
               y, Tail(requests), now)

\* the years the YearSelector offers: the stored year and the one after it
YearOptions == {FirstYear, FirstYear + 1}

InitDashboard ==
  /\ year = FirstYear
  /\ call = [fn |-> "none", arg |-> 0, dst |-> 0]
  /\ ret = NoRet
  /\ \E n \in 0 .. MaxStoreItems :
       /\ db = {StoredNode(year, key,
                           [slot |-> 1 + ((key - 1) % MaxStoreGrade),
                            grade |-> 1 + ((key - 1) % MaxStoreGrade),
                            topics |-> <<>>]) : key \in 1 .. n}
       /\ nextKey = n + 1
  /\ svc = NoCall
  /\ clock = StoredAt + 1
  /\ items = loadedItems(db, year, AllGrades)
  /\ draggedItem = NoItem
  /\ dragOverMonth = NoMonth
  /\ dropPosition = NoPosition
  /\ pointerMonth = NoMonth
  /\ event = NoEvent
  /\ writes = <<>>
  /\ DashAtRest

\* whether the loaded list is what the store now holds for the selection
Refreshed == items = loadedItems(db, year, dash.selectedGrade)

\* onValue callback: setItems(data)
Refresh ==
  /\ ~Refreshed
  /\ items' = loadedItems(db, year, dash.selectedGrade)
  /\ UNCHANGED <<year, call, ret, draggedItem, dragOverMonth, dropPosition,
                 pointerMonth, event, writes, storeVars, dashVars>>

\* a row's checkbox
SelectItem ==
  /\ \E id \in IdsOf(items) :
       dash' = [dash EXCEPT !.selectedItems = handleSelectItem(dash.selectedItems, id)]
  /\ UNCHANGED <<year, call, ret, viewVars, storeVars, peer>>

\* the header checkbox.  handleSelectAll reads filteredItems, a name the file
\* does not declare: checked, the handler throws (nothing changes) or, where
\* the name is bound to the displayed list, selects its ids
SelectAll ==
  /\ \E checked \in BOOLEAN :
       IF checked
         THEN \/ dash' = [dash EXCEPT
                            !.selectedItems = [k \in 1 .. Len(items) |-> items[k].id]]
              \/ dash' = dash
         ELSE dash' = [dash EXCEPT !.selectedItems = <<>>]
  /\ UNCHANGED <<year, call, ret, viewVars, storeVars, peer>>

\* the delete button of a row
HandleDeleteItem ==
  /\ ~dash.isDeleteDialogOpen
  /\ \E id \in IdsOf(items) :
       dash' = [dash EXCEPT !.deleteItemId = id, !.isDeleteDialogOpen = TRUE]
  /\ UNCHANGED <<year, call, ret, viewVars, storeVars, peer>>

\* the dialog's confirm button while deleteItemId is set
ConfirmDelete ==
  /\ dash.isDeleteDialogOpen
  /\ dash.deleteItemId # NoId
  /\ LET item == findItem(items, dash.deleteItemId)
     IN  db' = IF item # NoItem
                 THEN dbRemove(db, year, item.grade, dash.deleteItemId)
                 ELSE db
  /\ dash' = [dash EXCEPT !.isDeleteDialogOpen = FALSE, !.deleteItemId = NoId]
  /\ UNCHANGED <<year, call, ret, viewVars, svc, clock, nextKey, peer>>

\* the toolbar's delete button
HandleBulkDelete ==
  /\ ~dash.isDeleteDialogOpen
  /\ dash.selectedItems # <<>>
  /\ dash' = [dash EXCEPT !.deleteItemId = NoId, !.isDeleteDialogOpen = TRUE]
  /\ UNCHANGED <<year, call, ret, viewVars, storeVars, peer>>

\* the dialog's confirm button while deleteItemId is null
ConfirmBulkDelete ==
  /\ dash.isDeleteDialogOpen
  /\ dash.deleteItemId = NoId
  /\ IF dash.selectedItems # <<>>
       THEN LET itemsToDelete == SelectSeq(items, LAMBDA item : item.id \in SelectedIds)
            IN  /\ db' = bulkDelete(db, year, itemsToDelete)
                /\ dash' = [dash EXCEPT !.selectedItems = <<>>,
                                        !.isDeleteDialogOpen = FALSE]
       ELSE /\ db' = db
            /\ dash' = [dash EXCEPT !.isDeleteDialogOpen = FALSE]
  /\ UNCHANGED <<year, call, ret, viewVars, svc, clock, nextKey, peer>>

\* BulkEditDialog's confirm: the selected items go to the last week
BulkEdit ==
  /\ ~dash.isDeleteDialogOpen
  /\ dash.selectedItems # <<>>
  /\ clock < MaxClock
  /\ db' = applyUpdates(db, year,
                        handleBulkEdit(items, bulkEditUpdates(items, SelectedIds, MaxWeek)),
                        clock)
  /\ clock' = clock + 1
  /\ dash' = [dash EXCEPT !.selectedItems = <<>>]
  /\ UNCHANGED <<year, call, ret, viewVars, svc, nextKey, peer>>

\* YearSelector: onYearChange = setSelectedYear
ChangeYear ==
  /\ \E y \in YearOptions \ {year} : year' = y
  /\ UNCHANGED <<call, ret, viewVars, storeVars, dashVars>>

\* GradeSelector: onGradeChange = setSelectedGrade
ChangeGrade ==
  /\ \E grade \in ({AllGrades} \cup StoreGrades) \ {dash.selectedGrade} :
       dash' = [dash EXCEPT !.selectedGrade = grade]
  /\ UNCHANGED <<year, call, ret, viewVars, storeVars, peer>>

NextDashboard ==
  \/ Refresh
  \/ SelectItem
  \/ SelectAll
  \/ HandleDeleteItem
  \/ ConfirmDelete
  \/ HandleBulkDelete
  \/ ConfirmBulkDelete
  \/ BulkEdit
  \/ ChangeYear
  \/ ChangeGrade

SpecDashboard == InitDashboard /\ [][NextDashboard]_vars

----------------------------------------------------------------------------
(* Two clients on one store: this Dashboard, whose list is refreshed by its *)
(* listener at some later step, and another client that deletes items it    *)
(* sees in the store.                                                       *)

\* the other client's confirmDelete: deleteCurriculumItem of an item it lists
PeerDelete ==
  /\ \E item \in ItemsOf(getCurriculum(db, year)) :
       /\ db' = dbRemove(db, year, item.grade, item.id)
       /\ peer' = [fn |-> "deleteCurriculumItem", ids |-> peer.ids \cup {item.id}]
  /\ UNCHANGED <<year, call, ret, viewVars, svc, clock, nextKey, dash>>

\* the other client's confirmBulkDelete: bulkDelete of items it lists
PeerBulkDelete ==
  /\ \E chosen \in (SUBSET IdsOf(getCurriculum(db, year))) \ {{}} :
       /\ db' = bulkDelete(db, year,
                           SelectSeq(getCurriculum(db, year),
                                     LAMBDA item : item.id \in chosen))
       /\ peer' = [fn |-> "bulkDelete", ids |-> peer.ids \cup chosen]
  /\ UNCHANGED <<year, call, ret, viewVars, svc, clock, nextKey, dash>>

\* handleMoveItem for an item of the loaded list, up to the await of
\* updateCurriculumItem's update
MoveItem ==
  /\ svc.pc = "idle"
  /\ \E item \in ItemsOf(items), newWeek \in {HalfYearWeek, MaxWeek} :
       LET request == handleMoveItem(items, item.id, newWeek)[1]
       IN  svc' = [NoCall EXCEPT
                     !.fn = "updateCurriculumItem", !.pc = "update", !.year = year,
                     !.itemId = request.itemId, !.currentGrade = request.currentGrade,
                     !.updates = [fields |-> {"week"},
                                  values |-> [NoData EXCEPT !.week = request.week]],
                     !.timestamp = clock, !.before = db]
  /\ clock' = clock + 1
  /\ UNCHANGED <<year, call, ret, viewVars, db, nextKey, dashVars>>

NextStale ==
  \/ PeerDelete
  \/ PeerBulkDelete
  \/ Refresh
  \/ MoveItem
  \/ UpdateRegular

SpecStale == InitDashboard /\ [][NextStale]_vars

----------------------------------------------------------------------------
(* Dragging on the month view, from the first dragstart to the write of the *)
(* move.  The store holds up to MaxStoreItems items of the year, each under *)
(* its grade or in the old format; the view shows what the listener has     *)
(* delivered.  A dragover tells which month column the pointer is over; the *)
(* drop goes to a target of that column.                                    *)

InitDrag ==
  /\ year = FirstYear
  /\ call = [fn |-> "none", arg |-> 0, dst |-> 0]
  /\ ret = NoRet
  /\ \E n \in 0 .. MaxStoreItems :
       \E slots \in [1 .. n -> {LegacySlot, ItemGrade}] :
         /\ db = {StoredNode(year, key,
                             [slot |-> slots[key], grade |-> ItemGrade, topics |-> <<>>]) :
                    key \in 1 .. n}
         /\ nextKey = n + 1
  /\ svc = NoCall
  /\ clock = StoredAt + 1
  /\ items = loadedItems(db, year, AllGrades)
  /\ draggedItem = NoItem
  /\ dragOverMonth = NoMonth
  /\ dropPosition = NoPosition
  /\ pointerMonth = NoMonth
  /\ event = NoEvent
  /\ writes = <<>>
  /\ DashAtRest

\* onDragStart of an item's card
DragStart ==
  /\ Fresh
  /\ \E item \in ItemsOf(items) : draggedItem' = item
  /\ UNCHANGED <<year, call, ret, items, dragOverMonth, dropPosition, pointerMonth,
                 event, writes, storeVars, dashVars>>

\* onDragEnd of the card
DragEnd ==
  /\ Fresh
  /\ draggedItem' = NoItem
  /\ dragOverMonth' = NoMonth
  /\ dropPosition' = NoPosition
  /\ UNCHANGED <<year, call, ret, items, pointerMonth, event, writes,
                 storeVars, dashVars>>

\* <TableCell onDragOver> of row grade, column monthIndex
CellDragOver ==
  /\ Fresh
  /\ \E grade \in Grades, monthIndex \in MonthIndices :
       /\ pointerMonth' = monthIndex
       /\ IF draggedItem # NoItem /\ draggedItem.grade = grade
            THEN /\ dragOverMonth' = monthIndex
                 /\ dropPosition' = NoPosition
            ELSE UNCHANGED <<dragOverMonth, dropPosition>>
  /\ UNCHANGED <<year, call, ret, items, draggedItem, event, writes,
                 storeVars, dashVars>>

\* <TableCell onDragLeave>
CellDragLeave ==
  /\ Fresh
  /\ dragOverMonth' = NoMonth
  /\ dropPosition' = NoPosition
  /\ UNCHANGED <<year, call, ret, items, draggedItem, pointerMonth, event, writes,
                 storeVars, dashVars>>

\* onDragOver of the drop zone above monthItems[index], or below the last item
ZoneDragOver ==
  /\ Fresh
  /\ \E grade \in Grades, monthIndex \in MonthIndices, above \in BOOLEAN :
       LET monthItems == itemsByGradeAndMonth(items, grade, monthIndex, year)
       IN  \E index \in {i \in 0 .. (Len(monthItems) - 1) :
                           above \/ i = Len(monthItems) - 1} :
             /\ pointerMonth' = monthIndex
             /\ IF /\ draggedItem # NoItem
                   /\ draggedItem.grade = grade
                   /\ draggedItem.id # monthItems[index + 1].id
                  THEN dropPosition' = [index |-> index, above |-> above]
                  ELSE UNCHANGED dropPosition
  /\ UNCHANGED <<year, call, ret, items, draggedItem, dragOverMonth, event, writes,
                 storeVars, dashVars>>

\* onDragLeave of a drop zone
ZoneDragLeave ==
  /\ Fresh
  /\ dropPosition' = NoPosition
  /\ UNCHANGED <<year, call, ret, items, draggedItem, dragOverMonth, pointerMonth,
                 event, writes, storeVars, dashVars>>

\* onMoveItem = handleMoveItem: updateCurriculumItem up to the await of update
MoveWrite ==
  /\ event.called
  /\ writes # <<>>
  /\ svc.pc = "idle"
  /\ svc' = [NoCall EXCEPT
               !.fn = "updateCurriculumItem", !.pc = "update", !.year = year,
               !.itemId = writes[1].itemId, !.currentGrade = writes[1].currentGrade,
               !.updates = [fields |-> {"week"},
                            values |-> [NoData EXCEPT !.week = writes[1].week]],
               !.timestamp = clock, !.before = db]
  /\ clock' = clock + 1
  /\ UNCHANGED <<year, call, ret, viewVars, db, nextKey, dashVars>>

\* the drop has been dealt with (nothing to write, or written and listed):
\* the view waits for the next drag
DropHandled ==
  /\ ~Fresh
  /\ writes = <<>> \/ svc.pc = "done"
  /\ Refreshed
  /\ clock < MaxClock
  /\ event' = NoEvent
  /\ writes' = <<>>
  /\ svc' = NoCall
  /\ UNCHANGED <<year, call, ret, items, draggedItem, dragOverMonth, dropPosition,
                 pointerMonth, db, clock, nextKey, dashVars>>

NextDrag ==
  \/ DragStart
  \/ DragEnd
  \/ CellDragOver
  \/ CellDragLeave
  \/ ZoneDragOver
  \/ ZoneDragLeave
  \/ CellDrop
  \/ ZoneAboveDrop
  \/ ZoneBelowDrop
  \/ MoveWrite
  \/ UpdateRegular
  \/ Refresh
  \/ DropHandled

SpecDrag == InitDrag /\ [][NextDrag]_vars

----------------------------------------------------------------------------
(* Properties of the school-year calendar *)

\* position of a calendar month within the school year: April = 0 .. March = 11
SchoolYearPosition(monthIndex) == (monthIndex + 9) % 12

\* April 1 of the school year
AprilFirst == [year |-> year, month |-> 3, date |-> 1]

\* C1: dropping an item into an empty month cell puts it in that month: for
\* each of the 12 months m of the school year, the week getWeekForMonth(m, Y)
\* returns is a week that getMonthFromWeek maps back to m.
C1_EmptyCellDropLandsInMonth ==
  call.fn = "getWeekForMonth" => getMonthFromWeek(ret.num, year) = call.arg

\* C2: in every school year week 52 maps to March (month index 2).
C2_Week52IsMarch ==
  (call.fn = "getMonthFromWeek" /\ call.arg = 52) => ret.num = 2

\* C3: weak monotonicity: read as school-year positions (April = 0 .. March =
\* 11), the month of a week is never before the month of the week preceding it.
C3_MonthsNonDecreasing ==
  (call.fn = "getMonthFromWeek" /\ call.arg > 1) =>
    SchoolYearPosition(getMonthFromWeek(call.arg - 1, year))
      <= SchoolYearPosition(ret.num)

\* C4: in every school year week 1 maps to April (month index 3), whatever
\* weekday April 1 falls on.
C4_Week1IsApril ==
  (call.fn = "getMonthFromWeek" /\ call.arg = 1) => ret.num = 3

\* week 1 asked for in a year whose April 1 is a Tuesday (the first Monday is
\* then as late as it gets, April 7)
C4_Witness ==
  /\ call.fn = "getMonthFromWeek"
  /\ call.arg = 1
  /\ getDay(AprilFirst) = 2
  /\ ret.num = 3

\* C5: getSchoolYearMonths(Y) returns exactly 12 descriptors, their monthIndex
\* values being 3,4,...,11,0,1,2 in that order without repetition, with year Y
\* for monthIndex 3..11 and year Y+1 for monthIndex 0..2.
C5_SchoolYearMonths ==
  call.fn = "getSchoolYearMonths" =>
    /\ Len(ret.months) = 12
    /\ [i \in 1..12 |-> ret.months[i].monthIndex]
         = <<3, 4, 5, 6, 7, 8, 9, 10, 11, 0, 1, 2>>
    /\ \A i, j \in 1..12 :
         i # j => ret.months[i].monthIndex # ret.months[j].monthIndex
    /\ \A i \in 1..12 :
         /\ ret.months[i].monthIndex \in 3..11 => ret.months[i].year = year
         /\ ret.months[i].monthIndex \in 0..2 => ret.months[i].year = year + 1

C5_Witness ==
  /\ call.fn = "getSchoolYearMonths"
  /\ Len(ret.months) = 12
  /\ ret.months[1] = [name |-> "April", abbr |-> "Apr", monthIndex |-> 3, year |-> year]
  /\ ret.months[12] = [name |-> "March", abbr |-> "Mar", monthIndex |-> 2, year |-> year + 1]

\* the first Monday of April, found by looking at the days of April in order
FirstMondayDate ==
  CHOOSE d \in 1..7 :
    /\ getDay([year |-> year, month |-> 3, date |-> d]) = 1
    /\ \A e \in 1..(d - 1) : getDay([year |-> year, month |-> 3, date |-> e]) # 1

\* day number of the first day (a Monday) of week w of the school year
WeekStartDay(w) ==
  EpochDay([year |-> year, month |-> 3, date |-> FirstMondayDate]) + 7 * (w - 1)

\* the day numbered n lies in calendar month m of calendar year y
DayInMonth(n, y, m) ==
  /\ EpochDay([year |-> y, month |-> m, date |-> 1]) <= n
  /\ n <= EpochDay([year |-> y, month |-> m, date |-> DaysInMonth(y, m)])

\* the calendar month (0-11) of the day numbered n, a day of year Y or Y+1
MonthOfDay(n) ==
  CHOOSE m \in 0..11 : DayInMonth(n, year, m) \/ DayInMonth(n, year + 1, m)

\* how many of the seven days of week w lie in calendar month m
DaysOfWeekInMonth(w, m) ==
  Cardinality({i \in 0..6 : MonthOfDay(WeekStartDay(w) + i) = m})

\* week w has days in two calendar months
WeekIsSplit(w) == MonthOfDay(WeekStartDay(w)) # MonthOfDay(WeekStartDay(w) + 6)

\* C6: a week split across a month boundary is assigned to the month that
\* contains most (at least four) of its seven days, Monday to Sunday.
C6_SplitWeekGoesToMajorityMonth ==
  (call.fn = "getMonthFromWeek" /\ WeekIsSplit(call.arg)) =>
    DaysOfWeekInMonth(call.arg, ret.num) >= 4

C8_FirstMondayOfApril ==
  call.fn = "getFirstMondayOfApril" =>
    /\ getDay(ret.date) = 1
    /\ ret.date.year = year
    /\ ret.date.month = 3
    /\ ret.date.date \in 1..7
    /\ \A d \in 1..(ret.date.date - 1) :
         getDay([year |-> year, month |-> 3, date |-> d]) # 1

\* the call in a year whose April 1 is a Sunday (the case the code singles out)
C8_Witness ==
  /\ call.fn = "getFirstMondayOfApril"
  /\ getDay(AprilFirst) = 0
  /\ ret.date = [year |-> year, month |-> 3, date |-> 2]

\* C9: every month index 0..11 has at least one week of 1..52 mapping to it,
\* so getFirstWeekForMonth and getLastWeekForMonth return from their scan
\* and never through the getWeekForMonth fallback.
C9_FallbackNeverTaken ==
  call.fn \in {"getFirstWeekForMonth", "getLastWeekForMonth"} =>
    /\ \E w \in Weeks : getMonthFromWeek(w, year) = call.arg
    /\ ~ret.fallback

\* the scan for March, the month the 52 weeks reach last
C9_Witness ==
  /\ call.fn = "getLastWeekForMonth"
  /\ call.arg = 2
  /\ ~ret.fallback
  /\ getMonthFromWeek(ret.num, year) = 2

\* the weeks of 1..52 that map to month m
WeeksOfMonth(m) == {w \in Weeks : getMonthFromWeek(w, year) = m}

\* C10: for a month index to which some week maps, getFirstWeekForMonth is
\* the smallest week of 1..52 mapping to it and getLastWeekForMonth the largest.
C10_FirstAndLastWeekOfMonth ==
  /\ (call.fn = "getFirstWeekForMonth" /\ WeeksOfMonth(call.arg) # {}) =>
       /\ ret.num \in WeeksOfMonth(call.arg)
       /\ \A w \in WeeksOfMonth(call.arg) : ret.num <= w
  /\ (call.fn = "getLastWeekForMonth" /\ WeeksOfMonth(call.arg) # {}) =>
       /\ ret.num \in WeeksOfMonth(call.arg)
       /\ \A w \in WeeksOfMonth(call.arg) : ret.num >= w

\* the first week of April, with more weeks of April after it
C10_Witness ==
  /\ call.fn = "getFirstWeekForMonth"
  /\ call.arg = 3
  /\ ret.num = 1
  /\ Cardinality(WeeksOfMonth(3)) > 1

\* C11: for every school year and every month index 0..11,
\* getFirstWeekForMonth(m, Y) <= getLastWeekForMonth(m, Y).
C11_FirstWeekNotAfterLastWeek ==
  /\ call.fn = "getFirstWeekForMonth" =>
       ret.num <= getLastWeekForMonth(call.arg, year, call.dst).week
  /\ call.fn = "getLastWeekForMonth" =>
       getFirstWeekForMonth(call.arg, year, call.dst).week <= ret.num

\* a month with several weeks: its first week is strictly before its last
C11_Witness ==
  /\ call.fn = "getFirstWeekForMonth"
  /\ call.arg = 0
  /\ ret.num < getLastWeekForMonth(call.arg, year, call.dst).week

\* the drop that ran last: the item it was aimed at and the one listed before it
DropTarget == event.monthItems[event.position.index + 1]
DropPrev == event.monthItems[event.position.index]
MovedAtItem == event.called /\ event.position # NoPosition /\ event.monthItems # <<>>
MovedAboveFirst == MovedAtItem /\ event.position.above /\ event.position.index = 0
MovedAboveMiddle == MovedAtItem /\ event.position.above /\ event.position.index > 0
MovedBelowLast ==
  /\ MovedAtItem
  /\ ~event.position.above
  /\ event.position.index = Len(event.monthItems) - 1

\* C12: every week number the month view passes to onMoveItem is in [1, 52],
\* on every drop path: empty cell, cell background of a non-empty month, drop
\* zone above an item, drop zone below the last item.
C12_MovedWeekInRange ==
  event.called => event.newWeek >= 1 /\ event.newWeek <= 52

\* a drop on the empty January..March cell, where the week of the 15th lies
\* before week 1 and only the clamp brings it into range
C12_Witness ==
  /\ event.handler = "cell"
  /\ event.called
  /\ event.monthItems = <<>>
  /\ event.monthIndex = 0
  /\ getWeekForMonth_NoClamp(event.monthIndex, year, event.dst) < 1
  /\ event.newWeek = 1

\* C13: a drop above the first item of month m gives
\* max(getFirstWeekForMonth(m, Y), target.week - 1), a drop below the last item
\* gives min(getLastWeekForMonth(m, Y), target.week + 1), each clamped to [1, 52].
C13_EdgeDropUsesMonthBounds ==
  /\ MovedAboveFirst =>
       event.newWeek =
         Max(1, Min(52, Max(firstWeekForMonth[year][event.monthIndex][event.dst],
                            DropTarget.week - 1)))
  /\ MovedBelowLast =>
       event.newWeek =
         Max(1, Min(52, Min(lastWeekForMonth[year][event.monthIndex][event.dst],
                            DropTarget.week + 1)))

\* the first item already sits in the first week of its month: the month bound
\* decides, and the dragged item gets the same week
C13_Witness ==
  /\ event.handler = "zoneAbove"
  /\ MovedAboveFirst
  /\ DropTarget.week = firstWeekForMonth[year][event.monthIndex][event.dst]
  /\ event.newWeek = DropTarget.week

\* C14: a drop above a middle item, prev and target being consecutive items of
\* the month's list sorted by week, gives floor((prev.week + target.week) / 2)
\* when that midpoint is strictly between the two weeks, and
\* max(prev.week + 1, target.week - 1) otherwise, clamped to [1, 52].
C14_MiddleDropMidpoint ==
  MovedAboveMiddle =>
    LET midWeek == (DropPrev.week + DropTarget.week) \div 2
    IN  /\ DropPrev.week <= DropTarget.week
        /\ event.newWeek =
             Max(1, Min(52, IF midWeek > DropPrev.week /\ midWeek < DropTarget.week
                              THEN midWeek
                              ELSE Max(DropPrev.week + 1, DropTarget.week - 1)))

\* three weeks apart: the midpoint is not the week before the target
C14_Witness ==
  /\ event.handler = "zoneAbove"
  /\ MovedAboveMiddle
  /\ DropTarget.week - DropPrev.week = 3
  /\ event.newWeek = DropPrev.week + 1

\* C15: for a drop above a middle item with target.week - prev.week >= 2 the
\* assigned week is strictly between the neighbours' weeks.
C15_NoCollisionWhenGap ==
  (MovedAboveMiddle /\ DropTarget.week - DropPrev.week >= 2) =>
    (DropPrev.week < event.newWeek /\ event.newWeek < DropTarget.week)

C15_Witness ==
  /\ event.handler = "zoneAbove"
  /\ MovedAboveMiddle
  /\ DropTarget.week - DropPrev.week = 2
  /\ event.newWeek = DropPrev.week + 1

\* C16 as stated: a drop above an item at week 10, with no item of the month at
\* week 9, gives week 9 whether that item is the first of the month or follows
\* an item at a week <= 8, whatever the first week of the month is.
C16_AboveWeek10Gives9 ==
  ( /\ MovedAtItem
    /\ event.position.above
    /\ DropTarget.week = 10
    /\ \A k \in 1 .. Len(event.monthItems) : event.monthItems[k].week # 9
    /\ (event.position.index = 0 \/ DropPrev.week <= 8) )
  => event.newWeek = 9

\* C16 amended: above a first item at week 10 the dragged item gets
\* max(first week of the month, 9): week 9 when the month begins by week 9 and
\* week 10 when it begins with week 10.  An item at week 10 that is not the
\* first of its month follows an item at week 9 or 10: the weeks up to 8 belong
\* to an earlier month.
C16_AboveWeek10WithinMonth ==
  ( /\ MovedAtItem
    /\ event.position.above
    /\ DropTarget.week = 10 )
  => /\ event.position.index = 0 =>
          event.newWeek = Max(firstWeekForMonth[year][event.monthIndex][event.dst], 9)
     /\ event.position.index > 0 => DropPrev.week >= 9

\* June begins with week 10 and its first item is at week 10
C16_Witness ==
  /\ event.handler = "zoneAbove"
  /\ MovedAboveFirst
  /\ DropTarget.week = 10
  /\ firstWeekForMonth[year][event.monthIndex][event.dst] = 10
  /\ event.newWeek = 10

\* the day numbered n is the first day of a calendar month of year Y or Y+1
IsFirstOfMonth(n) ==
  \E y \in {year, year + 1} : \E m \in 0..11 :
    EpochDay([year |-> y, month |-> m, date |-> 1]) = n

\* C17: the two variants of the week-to-month mapping disagree for some input:
\* the weekday-counting getMonthFromWeek of exportService.ts and the
\* calendar-week getMonthFromWeek of dateHelpers.ts return different month
\* indices for a week of 1..52 of a school year, namely for every week whose
\* Friday is the first day of a month (and for no other week).
C17_VariantsDisagree ==
  call.fn = "exportGetMonthFromWeek" =>
    (ret.num # getMonthFromWeek(call.arg, year)
       <=> IsFirstOfMonth(WeekStartDay(call.arg) + 4))

\* the export's mapping asked for a week on which the two variants differ
C17_Witness ==
  /\ call.fn = "exportGetMonthFromWeek"
  /\ year = 2025
  /\ call.arg = 17
  /\ ret.num = 6
  /\ getMonthFromWeek(call.arg, year) = 7

\* C18: every week value written to the store by a form submit (create or
\* edit), by a drag-and-drop move or by a bulk edit is an integer in [1, 52].
C18_WrittenWeeksInRange ==
  \A k \in 1 .. Len(writes) : writes[k].week >= 1 /\ writes[k].week <= 52

\* a bulk edit that moved an item to the last week the dialog offers
C18_Witness ==
  /\ event.handler = "bulkEdit"
  /\ Len(writes) >= 1
  /\ writes[1].op = "update"
  /\ writes[1].week = 52

\* the grade-changing update that has completed on an item stored under
\* currentGrade, the item as it was before the call and as it is stored now
GradeChangeDone ==
  /\ svc.fn = "updateCurriculumItem"
  /\ svc.pc = "done"
  /\ "grade" \in svc.updates.fields
  /\ svc.updates.values.grade # svc.currentGrade
  /\ dbGet(svc.before, svc.year, svc.currentGrade, svc.itemId) # NoData
PreviousData == dbGet(svc.before, svc.year, svc.currentGrade, svc.itemId)
MovedData == dbGet(db, svc.year, svc.updates.values.grade, svc.itemId)

\* C19: after updateCurriculumItem(year, id, currentGrade, updates) with
\* updates.grade different from currentGrade has completed on an item stored
\* under currentGrade, the item is stored under year/updates.grade/id with its
\* previous fields overridden by updates, and nothing is stored under
\* year/currentGrade/id.
C19_GradeChangeMovesItem ==
  GradeChangeDone =>
    /\ MovedData # NoData
    /\ \A f \in DataFields \ {"updatedAt"} :
         MovedData[f] = IF f \in svc.updates.fields
                          THEN svc.updates.values[f]
                          ELSE PreviousData[f]
    /\ dbGet(db, svc.year, svc.currentGrade, svc.itemId) = NoData

\* an edit that changed grade and week of an item: both are new, the rest kept
C19_Witness ==
  /\ GradeChangeDone
  /\ MovedData.grade = svc.updates.values.grade
  /\ MovedData.week # PreviousData.week
  /\ MovedData.createdAt = PreviousData.createdAt
  /\ MovedData.topics # <<>>

\* C20: after copyYearToYear(source, target) has completed, every item that
\* getCurriculum reports for the source year, old-format items included, has a
\* copy with a new id in the target year with the same title, description,
\* week, grade, topics and resources, and the returned count is the number of
\* items of the source year.
C20_CopyYearCopiesAllItems ==
  (svc.fn = "copyYearToYear" /\ svc.pc = "done") =>
    LET source == getCurriculum(db, svc.year)
        target == getCurriculum(db, svc.targetYear)
    IN  /\ \A k \in 1 .. Len(source) :
             \E j \in 1 .. Len(target) :
               /\ \A i \in 1 .. Len(source) : target[j].id # source[i].id
               /\ target[j].title = source[k].title
               /\ target[j].description = source[k].description
               /\ target[j].week = source[k].week
               /\ target[j].grade = source[k].grade
               /\ target[j].topics = source[k].topics
               /\ target[j].resources = source[k].resources
        /\ svc.result = Len(source)

\* C21: the week computed by any drop of the month view (empty cell, cell
\* background, above an item, below the last item) maps back to the month it
\* was dropped on: getMonthFromWeek(newWeek, Y) = m.
C21_DropLandsInMonth ==
  event.called => getMonthFromWeek(event.newWeek, year) = event.monthIndex

\* C22: a drop above a middle item, prev and target being consecutive items of
\* the month's week-sorted list (equal weeks included), gets a week with
\* prev.week <= newWeek <= target.week.
C22_MiddleDropNotAfterTarget ==
  MovedAboveMiddle =>
    (DropPrev.week <= event.newWeek /\ event.newWeek <= DropTarget.week)

\* C23: in every state a subscriber of the whole year can observe, the states
\* between the steps of a grade-changing updateCurriculumItem included, an item
\* id is stored under at most one grade of the year.
C23_IdUnderOneGrade ==
  \A a \in YearNodes(db, year) : \A b \in YearNodes(db, year) :
    (a.key = b.key /\ a.slot # LegacySlot /\ b.slot # LegacySlot) => a.slot = b.slot

\* C29: the date that decides the month of week w is the Thursday of the week
\* starting on the Monday 7*(w-1) days after the first Monday of April, the
\* day 3 days after that Monday.
C29_DecidingDayIsThursday ==
  call.fn = "getMonthFromWeek" =>
    ret.num = MonthOfDay(WeekStartDay(call.arg) + 3)

\* whether the list holds this item
ListHolds(list, item) == \E i \in 1 .. Len(list) : list[i] = item

\* C27: comparing a list with itself, under the same year, reports nothing
\* added, removed or modified, and every item of the list unchanged, also
\* when two items of the list share grade, week and title.
C27_SelfComparisonAllUnchanged ==
  (call.fn = "compareYears" /\ call.year1Items = call.year2Items
     /\ call.year1 = call.year2) =>
    /\ ret.added = <<>>
    /\ ret.removed = <<>>
    /\ ret.modified = <<>>
    /\ \A i \in 1 .. Len(call.year1Items) : ListHolds(ret.unchanged, call.year1Items[i])

\* C28: every item of year2Items is in exactly one of added, modified and
\* unchanged; every removed item is an item of year1Items whose key no item
\* of year2Items has; addedCount + modifiedCount + unchangedCount = year2Total.
C28_YearTwoItemsClassifiedOnce ==
  call.fn = "compareYears" =>
    LET modifiedItems == [i \in 1 .. Len(ret.modified) |-> ret.modified[i].item]
        timesIn(list, item) == Cardinality({i \in 1 .. Len(list) : list[i] = item})
    IN  /\ \A i \in 1 .. Len(call.year2Items) :
             timesIn(ret.added, call.year2Items[i])
               + timesIn(modifiedItems, call.year2Items[i])
               + timesIn(ret.unchanged, call.year2Items[i]) = 1
        /\ \A i \in 1 .. Len(ret.removed) :
             /\ ListHolds(call.year1Items, ret.removed[i])
             /\ ~byKeyHas(call.year2Items, compareKey(ret.removed[i]))
        /\ ret.stats.addedCount = Len(ret.added)
        /\ ret.stats.modifiedCount = Len(ret.modified)
        /\ ret.stats.unchangedCount = Len(ret.unchanged)
        /\ ret.stats.year2Total = Len(call.year2Items)
        /\ ret.stats.addedCount + ret.stats.modifiedCount + ret.stats.unchangedCount
             = ret.stats.year2Total

\* a comparison in which one year-2 item is added and the other modified,
\* against a year 1 that holds its key twice
C28_Witness ==
  /\ call.fn = "compareYears"
  /\ Len(call.year1Items) = 2
  /\ compareKey(call.year1Items[1]) = compareKey(call.year1Items[2])
  /\ Len(call.year2Items) = 2
  /\ Len(ret.added) = 1
  /\ Len(ret.modified) = 1
  /\ ret.modified[1].item = call.year2Items[2]

\* C25: once the list has been refreshed from the store, every selected id
\* is the id of a loaded item.
C25_SelectedItemsAreLoaded ==
  Refreshed => SelectedIds \subseteq IdsOf(items)

\* C24: when another client has deleted an item and this client's move of
\* it has finished, no record is stored under the item's id.
C24_DeletedItemStaysDeleted ==
  (svc.fn = "updateCurriculumItem" /\ svc.pc = "done" /\ svc.itemId \in peer.ids) =>
    \A node \in db : node.key # svc.itemId

\* a move made by a drop has been written
MoveDone == event.called /\ svc.fn = "updateCurriculumItem" /\ svc.pc = "done"

\* the store after the move against the store before it: the dragged item's
\* record differs in week and updatedAt only, every other record is as it
\* was, and no record has appeared
MoveChangedOnlyWeek ==
  /\ \A old \in svc.before :
       IF old.year = year /\ old.key = event.itemId
         THEN [year |-> old.year, slot |-> old.slot, key |-> old.key,
               data |-> [old.data EXCEPT !.week = event.newWeek,
                                         !.updatedAt = svc.timestamp]] \in db
         ELSE old \in db
  /\ \A node \in db :
       \E old \in svc.before :
         old.year = node.year /\ old.slot = node.slot /\ old.key = node.key

\* C26: whatever drag events came before, a drop on a row of another grade
\* than the dragged item's, or with nothing dragged, does not call onMoveItem;
\* and a move a drop makes changes week and updatedAt of the dragged item's
\* record and nothing else in the store.
C26_DragMovesOnlyWeek ==
  /\ [][(event' # event /\ event'.handler # "none"
           /\ (draggedItem = NoItem \/ draggedItem.grade # event'.grade))
          => (~event'.called /\ writes' = <<>>)]_vars
  /\ [](MoveDone => MoveChangedOnlyWeek)

====
